---------------------------- MODULE Spec2Model ----------------------------
(***************************************************************************)
(* A model of krypton's PEM loader, src/src/pem.c: pem_load, pem_free and  *)
(* pem_load_types, built with KR_ENABLE_FILESYSTEM.                        *)
(*                                                                         *)
(* A C string is a sequence of one-character strings; the terminating NUL  *)
(* is the position one past its end.  A pointer into a string is a 1-based *)
(* index into the sequence, 0 is the NULL pointer.  Bytes are 0..255.      *)
(***************************************************************************)
EXTENDS Integers, Sequences, FiniteSets, TLC

(***************************************************************************)
(* Bounds of the model.                                                    *)
(***************************************************************************)
\* the greatest number of pieces (lines or whole objects) an input is made of
MaxItems == 3
\* the greatest length of a byte sequence that is encoded and loaded back
MaxBytes == 4
\* the greatest number of pieces of an input that has long lines
MaxBigItems == 4

(***************************************************************************)
(* Constants of the program.                                               *)
(***************************************************************************)
DER_INCREMENT == 1024
OBJ_INCREMENT == 4
\* sizeof(buf), the fgets chunk buffer
BUF_SIZE == 128
\* sizeof(dec), the per-line decode buffer of add_line
DEC_SIZE == 96

\* the kinds, bits of a mask (ktypes.h)
PEM_SIG_CERT == 1
PEM_SIG_KEY == 2
PEM_SIG_RSA_KEY == 4

\* enum pem_filter_result
PEM_FILTER_NO == "PEM_FILTER_NO"
PEM_FILTER_YES == "PEM_FILTER_YES"
PEM_FILTER_YES_AND_STOP == "PEM_FILTER_YES_AND_STOP"
FilterResults == {PEM_FILTER_NO, PEM_FILTER_YES, PEM_FILTER_YES_AND_STOP}

NULL == 0
NUL == "NUL"

(***************************************************************************)
(* The marker strings of check_begin_marker and check_end_marker and the   *)
(* literals of the source detection.                                       *)
(***************************************************************************)
BEGIN_CERT == <<"-","-","-","-","-","B","E","G","I","N"," ","C","E","R","T","I","F","I","C","A","T","E","-","-","-","-","-">>
BEGIN_KEY == <<"-","-","-","-","-","B","E","G","I","N"," ","P","R","I","V","A","T","E"," ","K","E","Y","-","-","-","-","-">>
BEGIN_RSA == <<"-","-","-","-","-","B","E","G","I","N"," ","R","S","A"," ","P","R","I","V","A","T","E"," ","K","E","Y","-","-","-","-","-">>
END_CERT == <<"-","-","-","-","-","E","N","D"," ","C","E","R","T","I","F","I","C","A","T","E","-","-","-","-","-">>
END_KEY == <<"-","-","-","-","-","E","N","D"," ","P","R","I","V","A","T","E"," ","K","E","Y","-","-","-","-","-">>
END_RSA == <<"-","-","-","-","-","E","N","D"," ","R","S","A"," ","P","R","I","V","A","T","E"," ","K","E","Y","-","-","-","-","-">>
BEGIN_PREFIX == <<"-","-","-","-","-","B","E","G","I","N"," ">>
DASHES == <<"-","-","-","-","-">>

(***************************************************************************)
(* The C library functions the loader calls.                               *)
(***************************************************************************)
Min(a, b) == IF a < b THEN a ELSE b

\* s[i] of a NUL-terminated string
CharAt(s, i) == IF i >= 1 /\ i <= Len(s) THEN s[i] ELSE NUL

\* isspace() in the C locale; the vertical tab has no TLA+ literal and no input holds it
isspace(c) == c \in {" ", "\t", "\n", "\r", "\f"}

\* strncmp(a + i - 1, b + j - 1, n) == 0: at most n characters are compared and
\* the comparison ends at the first difference or at the NUL of either string
strncmp_eq(a, i, b, j, n) ==
  LET m == Min(n, Min(Len(a) - i + 2, Len(b) - j + 2))
  IN \A t \in 0..(m - 1) : CharAt(a, i + t) = CharAt(b, j + t)

\* pat occurs in s at i
OccursAt(s, i, pat) == \A k \in 1..Len(pat) : CharAt(s, i + k - 1) = pat[k]

\* strstr(s + from - 1, pat): the first occurrence at or after from, NULL when none
strstr(s, from, pat) ==
  IF \E i \in from..Len(s) : OccursAt(s, i, pat)
  THEN CHOOSE i \in from..Len(s) :
         OccursAt(s, i, pat) /\ \A h \in from..(i - 1) : ~OccursAt(s, h, pat)
  ELSE NULL

\* strchr(s + from - 1, c), c not NUL
strchr(s, from, c) ==
  IF \E i \in from..Len(s) : s[i] = c
  THEN CHOOSE i \in from..Len(s) : s[i] = c /\ \A h \in from..(i - 1) : s[h] # c
  ELSE NULL

\* fgets(buf, size, f) at file offset pos (0-based count of characters read):
\* the chunk read, through the first newline or size - 1 characters; <<>> is
\* the NULL return at end of file
fgets(file, pos, size) ==
  LET nl == strchr(file, pos + 1, "\n")
      last == IF nl # NULL THEN Min(nl, pos + size - 1)
              ELSE Min(Len(file), pos + size - 1)
  IN SubSeq(file, pos + 1, last)

(***************************************************************************)
(* check_begin_marker and check_end_marker.  len is the length of the      *)
(* trimmed line, so strncmp compares only the line's own characters.       *)
(***************************************************************************)
\* the kind stored in *got, or 0 when the function returns 0
check_begin_marker(str, at, len) ==
  IF strncmp_eq(str, at, BEGIN_CERT, 1, len) THEN PEM_SIG_CERT
  ELSE IF strncmp_eq(str, at, BEGIN_KEY, 1, len) THEN PEM_SIG_KEY
  ELSE IF strncmp_eq(str, at, BEGIN_RSA, 1, len) THEN PEM_SIG_RSA_KEY
  ELSE 0

\* a check_end_marker that takes the end marker of any kind
check_end_marker_any_kind(str, at, len, sig_type) ==
  \/ strncmp_eq(str, at, END_CERT, 1, len)
  \/ strncmp_eq(str, at, END_KEY, 1, len)
  \/ strncmp_eq(str, at, END_RSA, 1, len)

check_end_marker(str, at, len, sig_type) ==
  CASE sig_type = PEM_SIG_CERT -> strncmp_eq(str, at, END_CERT, 1, len)
    [] sig_type = PEM_SIG_KEY -> strncmp_eq(str, at, END_KEY, 1, len)
    [] sig_type = PEM_SIG_RSA_KEY -> strncmp_eq(str, at, END_RSA, 1, len)
    [] OTHER -> FALSE

(***************************************************************************)
(* b64_decode (b64.c, outside src/): standard base64 of one line into a    *)
(* buffer of DEC_SIZE bytes.  It fails on a character outside the          *)
(* alphabet, on wrong padding and on output that does not fit.             *)
(***************************************************************************)
B64Alphabet == <<"A","B","C","D","E","F","G","H","I","J","K","L","M","N","O","P","Q","R","S","T","U","V","W","X","Y","Z","a","b","c","d","e","f","g","h","i","j","k","l","m","n","o","p","q","r","s","t","u","v","w","x","y","z","0","1","2","3","4","5","6","7","8","9","+","/">>

B64Chars == {B64Alphabet[i] : i \in 1..64}

B64Val(c) == (CHOOSE i \in 1..64 : B64Alphabet[i] = c) - 1

\* the bytes of one quantum of four characters, npad of them padding
B64Quantum(q, npad) ==
  LET v(k) == IF k > 4 - npad THEN 0 ELSE B64Val(q[k])
      n == v(1) * 262144 + v(2) * 4096 + v(3) * 64 + v(4)
      bytes == <<n \div 65536, (n \div 256) % 256, n % 256>>
  IN SubSeq(bytes, 1, 3 - npad)

\* the number of padding characters ending the line
B64Pad(line) ==
  IF Len(line) >= 2 /\ line[Len(line)] = "=" /\ line[Len(line) - 1] = "=" THEN 2
  ELSE IF Len(line) >= 1 /\ line[Len(line)] = "=" THEN 1
  ELSE 0

RECURSIVE B64Bytes(_, _)
B64Bytes(line, npad) ==
  IF Len(line) = 0 THEN <<>>
  ELSE IF Len(line) = 4 THEN B64Quantum(line, npad)
  ELSE B64Quantum(SubSeq(line, 1, 4), 0) \o B64Bytes(SubSeq(line, 5, Len(line)), npad)

\* [ok, out]: the return value and the decoded bytes (olen is Len(out))
b64_decode(line) ==
  LET npad == B64Pad(line)
      good == /\ Len(line) > 0
              /\ Len(line) % 4 = 0
              /\ \A k \in 1..(Len(line) - npad) : line[k] \in B64Chars
              /\ (Len(line) \div 4) * 3 - npad <= DEC_SIZE
  IN IF good THEN [ok |-> TRUE, out |-> B64Bytes(line, npad)]
     ELSE [ok |-> FALSE, out |-> <<>>]

\* type & type_mask of pem_type_filter, on the three kind bits
RECURSIVE BitAnd(_, _)
BitAnd(a, b) ==
  IF a = 0 \/ b = 0 THEN 0
  ELSE (a % 2) * (b % 2) + 2 * BitAnd(a \div 2, b \div 2)


(***************************************************************************)
(* The inputs: a text is a concatenation of at most MaxItems pieces, each  *)
(* a line with its terminator, a fragment without one, or a whole object.  *)
(***************************************************************************)
LINE(s) == s \o <<"\n">>
CRLF(s) == s \o <<"\r", "\n">>

\* base64 of the bytes 0, 0, 0 and of the bytes 65, 66
B64_AAAA == <<"A","A","A","A">>
B64_QUI == <<"Q","U","I","=">>

\* a private key of two content lines, CRLF line ends and padded lines
OBJ_KEY ==
  CRLF(BEGIN_KEY) \o CRLF(<<" ">> \o B64_AAAA) \o CRLF(B64_QUI \o <<"\t">>) \o CRLF(END_KEY)

\* an empty RSA key followed by a certificate of one content line
OBJ_PAIR ==
  LINE(BEGIN_RSA) \o LINE(END_RSA) \o LINE(BEGIN_CERT) \o LINE(B64_AAAA) \o LINE(END_CERT)

\* the pieces: begin and end marker lines, a content line, a blank line, a
\* line that is a proper prefix of every marker, an end marker without its
\* line terminator, and the two objects
Items ==
  << LINE(BEGIN_CERT), LINE(BEGIN_KEY), LINE(END_CERT), LINE(END_KEY),
     LINE(B64_AAAA), LINE(<<>>), LINE(DASHES), END_CERT, OBJ_KEY, OBJ_PAIR >>

RECURSIVE Flatten(_)
Flatten(ids) ==
  IF Len(ids) = 0 THEN <<>> ELSE Items[Head(ids)] \o Flatten(Tail(ids))

Inputs ==
  {Flatten(ids) : ids \in UNION {[1..n -> 1..Len(Items)] : n \in 0..MaxItems}}

\* the name of the one file of the file system
FilePath == <<"k","e","y",".","p","e","m">>

\* the masks pem_load_types is called with
TypeMasks == {PEM_SIG_CERT, PEM_SIG_KEY + PEM_SIG_RSA_KEY}

(***************************************************************************)
(* The state of one call.                                                  *)
(***************************************************************************)
VARIABLES
  entry,        \* "pem_load" (a filter of the caller) or "pem_load_types"
  type_mask,    \* the mask of pem_load_types
  fn,           \* the fn argument: a file name, or text holding PEM objects
  disk,         \* the content of the file FilePath
  armor,        \* the object the content was encoded from, NoArmor if from pieces
  pc,           \* the position in pem_load
  pb, f, fpos, buf, lb, le, ll,
  state, cur, got, der_max_len,
  p,            \* the PEM pointer: NULL or 1
  pem,          \* *p: num_obj, max_obj, tot_len and the slots of obj
  mem,          \* the der buffers ever allocated: bytes, and how often each was freed
  ret,          \* the value returned
  nclose,       \* the number of fclose calls
  snap,         \* the table as it was at the last begin marker
  trace,        \* one entry per line the switch has handled
  calls,        \* one entry per call of the filter
  err,          \* the fatal error of the call, "none" if none
  brk           \* which break ended the scan loop, "none" if none

vars == <<entry, type_mask, fn, disk, armor, pc, pb, f, fpos, buf, lb, le, ll,
          state, cur, got, der_max_len, p, pem, mem, ret, nclose,
          snap, trace, calls, err, brk>>

inputs == <<entry, type_mask, fn, disk, armor>>

\* the content is a concatenation of pieces, not the encoding of an object
NoArmor == [kind |-> 0, bytes |-> <<>>, width |-> 0]

\* a slot of the table that realloc returned and nothing has written yet
Uninit == [der_type |-> -1, der_len |-> -1, der |-> -1]

\* calloc(1, sizeof(*p))
PemZero == [num_obj |-> 0, max_obj |-> 0, tot_len |-> 0, obj |-> <<>>]

\* the state at the entry of pem_load, called with text or with the name of a
\* file that holds text
Entry(text, viaFile) ==
  /\ fn = IF viaFile THEN FilePath ELSE text
  /\ disk = IF viaFile THEN text ELSE <<>>
  /\ pc = "start"
  /\ pb = "NULL" /\ f = NULL /\ fpos = 0 /\ buf = <<>>
  /\ lb = NULL /\ le = NULL /\ ll = 0
  /\ state = 0 /\ cur = 0 /\ got = 0 /\ der_max_len = 0
  /\ p = NULL /\ pem = PemZero /\ mem = <<>> /\ ret = NULL /\ nclose = 0
  /\ snap = <<>> /\ trace = <<>> /\ calls = <<>> /\ err = "none" /\ brk = "none"

\* a call of pem_load with a filter of the caller
Init ==
  /\ entry = "pem_load" /\ type_mask = 0 /\ armor = NoArmor
  /\ \E text \in Inputs, viaFile \in BOOLEAN : Entry(text, viaFile)

\* a call of pem_load_types
InitTypes ==
  /\ entry = "pem_load_types" /\ type_mask \in TypeMasks /\ armor = NoArmor
  /\ \E text \in Inputs, viaFile \in BOOLEAN : Entry(text, viaFile)

(***************************************************************************)
(* pem_load, lines 106-136: the choice of the source and the table.        *)
(***************************************************************************)
\* fopen(fn, "r") succeeds for the one file of the file system
fopen_ok(name) == name = FilePath

\* the first "-----BEGIN " of s, NULL when none (line 107)
DetectBegin(s) == strstr(s, 1, BEGIN_PREFIX)

\* the first "-----" after it, NULL when none (line 108)
DetectEnd(s) ==
  IF DetectBegin(s) = NULL THEN NULL ELSE strstr(s, DetectBegin(s) + 1, DASHES)

\* the kind of the begin marker that makes s text with PEM objects, 0 when
\* s is taken as a file name (line 109)
DetectKind(s) ==
  IF DetectEnd(s) = NULL THEN 0
  ELSE check_begin_marker(s, DetectBegin(s), DetectEnd(s) - DetectBegin(s) + 5)

Detect ==
  /\ pc = "start"
  /\ lb' = DetectBegin(fn)
  /\ le' = IF DetectBegin(fn) = NULL THEN le ELSE DetectEnd(fn)
  /\ IF DetectKind(fn) # 0
     THEN /\ got' = DetectKind(fn) /\ pb' = "fn" /\ pc' = "alloc"
          /\ UNCHANGED <<f, err>>
     ELSE /\ got' = got
          /\ IF fopen_ok(fn)
             THEN /\ f' = 1 /\ pb' = "buf" /\ pc' = "alloc" /\ err' = err
             ELSE /\ f' = NULL /\ pb' = pb /\ pc' = "out_free"
                  /\ err' = "SourceUnavailable"
  /\ UNCHANGED <<inputs, snap, fpos, buf, ll, state, cur, der_max_len, p, pem, mem, ret,
                 nclose, trace, calls, brk>>

\* p = calloc(1, sizeof(*p)) succeeds
Alloc ==
  /\ pc = "alloc"
  /\ p' = 1 /\ pem' = PemZero
  /\ state' = 0 /\ cur' = 0
  /\ lb' = 1
  /\ pc' = "loop"
  /\ UNCHANGED <<inputs, snap, pb, f, fpos, buf, le, ll, got, der_max_len, mem, ret,
                 nclose, trace, calls, err, brk>>

\* calloc fails: goto out with p NULL
AllocNoMem ==
  /\ pc = "alloc"
  /\ p' = NULL
  /\ err' = "AllocationFailure"
  /\ pc' = "out"
  /\ UNCHANGED <<inputs, snap, pb, f, fpos, buf, lb, le, ll, state, cur, got,
                 der_max_len, pem, mem, ret, nclose, trace, calls, brk>>

(***************************************************************************)
(* The line reader, lines 138-152.                                         *)
(***************************************************************************)
\* while (*lb != '\0' && isspace(*lb)) lb++
SkipSpace(s, i) ==
  CHOOSE k \in i..(Len(s) + 1) :
    ~isspace(CharAt(s, k)) /\ \A h \in i..(k - 1) : isspace(CharAt(s, h))

\* while (le > lb && isspace(*le)) le--
TrimBack(s, b, e) ==
  CHOOSE k \in b..e :
    (k = b \/ ~isspace(CharAt(s, k))) /\ \A h \in (k + 1)..e : isspace(CharAt(s, h))

\* the chunk fgets leaves in buf; <<>> when it returns NULL
Chunk == fgets(disk, fpos, BUF_SIZE)

\* One pass of lines 138-152: brk names the break taken ("none": a line was
\* found), buf and fpos are the buffer and the file offset after it, lb and
\* le delimit the trimmed line and ll is its length.
ReadLine ==
  LET eof == pb = "buf" /\ Chunk = <<>>
      s == IF pb = "buf" THEN Chunk ELSE fn
      lb1 == SkipSpace(s, IF pb = "buf" THEN 1 ELSE lb)
      nl == strchr(s, lb1, "\n")
      le1 == TrimBack(s, lb1, nl) + 1
      fpos1 == IF pb = "buf" THEN fpos + Len(Chunk) ELSE fpos
      buf1 == IF pb = "buf" THEN Chunk ELSE buf
  IN IF eof
     THEN [brk |-> "eof", buf |-> buf, fpos |-> fpos, lb |-> lb, le |-> le, ll |-> ll]
     ELSE IF CharAt(s, lb1) = NUL
     THEN [brk |-> "nul", buf |-> buf1, fpos |-> fpos1, lb |-> lb1, le |-> le, ll |-> ll]
     ELSE IF nl = NULL
     THEN [brk |-> "nonl", buf |-> buf1, fpos |-> fpos1, lb |-> lb1, le |-> NULL, ll |-> ll]
     ELSE [brk |-> "none", buf |-> buf1, fpos |-> fpos1, lb |-> lb1, le |-> le1,
           ll |-> le1 - lb1]

\* the loop is left by one of its three breaks
Break ==
  /\ pc = "loop"
  /\ LET R == ReadLine
     IN /\ R.brk # "none"
        /\ brk' = R.brk
        /\ buf' = R.buf /\ fpos' = R.fpos /\ lb' = R.lb /\ le' = R.le /\ ll' = R.ll
  /\ pc' = "after"
  /\ UNCHANGED <<inputs, snap, pb, f, state, cur, got, der_max_len, p, pem, mem, ret,
                 nclose, trace, calls, err>>

\* a trimmed line is found: lb, le and ll delimit it
NextLine ==
  /\ pc = "loop"
  /\ LET R == ReadLine
     IN /\ R.brk = "none"
        /\ buf' = R.buf /\ fpos' = R.fpos /\ lb' = R.lb /\ le' = R.le /\ ll' = R.ll
  /\ pc' = "switch"
  /\ UNCHANGED <<inputs, snap, pb, f, state, cur, got, der_max_len, p, pem, mem, ret,
                 nclose, trace, calls, err, brk>>

\* the string lb and le point into
Scanned == IF pb = "buf" THEN buf ELSE fn

\* the characters of the trimmed line
Line == SubSeq(Scanned, lb, lb + ll - 1)

\* the place of the trimmed line in the whole content (the file or fn)
LineAt == (IF pb = "buf" THEN fpos - Len(buf) ELSE 0) + lb

\* a line 199 that leaves lb where it is
Advance_stay(b, e) == b

\* line 199, lb = le: the scan goes on after the line just handled
Advance(b, e) == e

\* the entry of trace for the current line, handled as ev
Event(ev) ==
  [at |-> LineAt, ll |-> ll, st |-> state,
   kind |-> IF state = 1 THEN pem.obj[cur + 1].der_type ELSE 0, ev |-> ev]

(***************************************************************************)
(* The growable object table and byte buffer.                              *)
(***************************************************************************)
\* add_object must grow the table
add_object_grows(t) == t.num_obj >= t.max_obj

\* an add_object that grows the table one object too early
add_object_eager(t) ==
  IF t.num_obj + 1 >= t.max_obj
  THEN [t EXCEPT !.max_obj = @ + OBJ_INCREMENT,
                 !.obj = @ \o [i \in 1..OBJ_INCREMENT |-> Uninit]]
  ELSE t

\* add_object returning 1: the table after it
add_object(t) ==
  IF add_object_grows(t)
  THEN [t EXCEPT !.max_obj = @ + OBJ_INCREMENT,
                 !.obj = @ \o [i \in 1..OBJ_INCREMENT |-> Uninit]]
  ELSE t

\* an add_line that grows the buffer only once it is overfull
add_line_grows_late(d, max_len, olen) == d.der_len > max_len

\* add_line must grow the buffer for olen more bytes
add_line_grows(d, max_len, olen) == d.der_len + olen > max_len

\* *max_len after add_line returned 1
add_line_max_len(d, max_len, olen) ==
  IF add_line_grows(d, max_len, olen) THEN max_len + DER_INCREMENT ELSE max_len

(***************************************************************************)
(* The scan state machine, lines 158-199, state 0.                         *)
(***************************************************************************)
\* the bytes d->der points to
DerBytes(m, d) == IF d.der = NULL THEN <<>> ELSE m[d.der].data

\* what a caller sees of the table: the counters and the occupied slots
View(t, m) ==
  [num_obj |-> t.num_obj, tot_len |-> t.tot_len,
   objs |-> [i \in 1..t.num_obj |->
               [der_type |-> t.obj[i].der_type, der_len |-> t.obj[i].der_len,
                der |-> t.obj[i].der, bytes |-> DerBytes(m, t.obj[i])]]]

\* a claim that stores the kind of a certificate whatever the marker
ClaimSlot_cert(t, k) ==
  [t EXCEPT !.num_obj = @ + 1,
            !.obj[t.num_obj + 1] = [der_type |-> PEM_SIG_CERT, der_len |-> 0, der |-> NULL]]

\* a claim that leaves in a slot taken again the buffer pointer it had
ClaimSlot_stale(t, k) ==
  [t EXCEPT !.num_obj = @ + 1,
            !.obj[t.num_obj + 1] =
               [der_type |-> k, der_len |-> 0,
                der |-> IF @.der = Uninit.der THEN NULL ELSE @.der]]

\* lines 162-167: the table with the slot num_obj claimed for kind k
ClaimSlot(t, k) ==
  [t EXCEPT !.num_obj = @ + 1,
            !.obj[t.num_obj + 1] = [der_type |-> k, der_len |-> 0, der |-> NULL]]

\* a begin marker: a slot is claimed
LineBegin ==
  /\ pc = "switch" /\ state = 0
  /\ LET k == check_begin_marker(Scanned, lb, ll)
         t == add_object(pem)
     IN /\ k # 0
        /\ got' = k
        /\ cur' = t.num_obj
        /\ pem' = ClaimSlot(t, k)
  /\ snap' = View(pem, mem)
  /\ der_max_len' = 0
  /\ state' = 1
  /\ trace' = Append(trace, Event("begin"))
  /\ lb' = Advance(lb, le)
  /\ pc' = "loop"
  /\ UNCHANGED <<inputs, pb, f, fpos, buf, le, ll, p, mem, ret, nclose, calls,
                 err, brk>>

\* a begin marker, and the table cannot grow
LineBeginNoMem ==
  /\ pc = "switch" /\ state = 0
  /\ LET k == check_begin_marker(Scanned, lb, ll)
     IN /\ k # 0
        /\ got' = k
  /\ add_object_grows(pem)
  /\ trace' = Append(trace, Event("nomem"))
  /\ err' = "AllocationFailure"
  /\ pc' = "out_free"
  /\ UNCHANGED <<inputs, snap, pb, f, fpos, buf, lb, le, ll, state, cur, der_max_len,
                 p, pem, mem, ret, nclose, calls, brk>>

\* any other line is ignored
LineSkip ==
  /\ pc = "switch" /\ state = 0
  /\ check_begin_marker(Scanned, lb, ll) = 0
  /\ trace' = Append(trace, Event("skip"))
  /\ lb' = Advance(lb, le)
  /\ pc' = "loop"
  /\ UNCHANGED <<inputs, snap, pb, f, fpos, buf, le, ll, state, cur, got, der_max_len,
                 p, pem, mem, ret, nclose, calls, err, brk>>

(***************************************************************************)
(* The filter protocol and state 1, lines 170-195.                         *)
(***************************************************************************)
\* a pem_type_filter that compares the kind with the mask
pem_type_filter_equal(type, mask) ==
  IF type = mask THEN PEM_FILTER_YES ELSE PEM_FILTER_NO

pem_type_filter(type, mask) ==
  IF BitAnd(type, mask) # 0 THEN PEM_FILTER_YES ELSE PEM_FILTER_NO

\* what flt(&p->obj[cur], got, flt_arg) may return: the caller's filter of
\* pem_load may return anything, pem_load_types passes pem_type_filter
flt(type) ==
  IF entry = "pem_load_types" THEN {pem_type_filter(type, type_mask)}
  ELSE FilterResults

\* free(ptr)
Free(m, ptr) == IF ptr = NULL THEN m ELSE [m EXCEPT ![ptr].nfree = @ + 1]

\* der_free(&p->obj[i]), i a C index
der_free(m, t, i) == Free(m, t.obj[i + 1].der)

\* a rejection that leaves the occupied count as it is
RejectObject_keep_count(t) == t

\* the table after a rejection, line 180
RejectObject(t) == [t EXCEPT !.num_obj = @ - 1]

\* an acceptance that counts the object, not its bytes
AcceptObject_count(t, i) == [t EXCEPT !.tot_len = @ + 1]

\* the table after an acceptance, line 174
AcceptObject(t, i) == [t EXCEPT !.tot_len = @ + t.obj[i + 1].der_len]

\* a filter protocol that goes on scanning after a stop
AfterFilter_continue(keep) == "loop"

\* where the scan goes after the filter returned keep
AfterFilter(keep) == IF keep = PEM_FILTER_YES_AND_STOP THEN "out" ELSE "loop"

\* the end marker of the object in progress: the filter decides
LineEnd(keep) ==
  /\ pc = "switch" /\ state = 1
  /\ LET d == pem.obj[cur + 1]
     IN /\ check_end_marker(Scanned, lb, ll, d.der_type)
        /\ keep \in flt(got)
        /\ calls' = Append(calls, [type |-> got, der_type |-> d.der_type,
                                   der |-> DerBytes(mem, d), der_len |-> d.der_len,
                                   cur |-> cur, keep |-> keep,
                                   line |-> Len(trace) + 1])
  /\ trace' = Append(trace, Event("end"))
  /\ IF keep # PEM_FILTER_NO
     THEN /\ pem' = AcceptObject(pem, cur)
          /\ UNCHANGED <<mem, cur>>
     ELSE /\ mem' = der_free(mem, pem, cur)
          /\ pem' = RejectObject(pem)
          /\ cur' = pem'.num_obj
  /\ pc' = AfterFilter(keep)
  /\ IF pc' = "out"
     THEN UNCHANGED <<lb, state>>
     ELSE lb' = Advance(lb, le) /\ state' = 0
  /\ UNCHANGED <<inputs, snap, pb, f, fpos, buf, le, ll, got, der_max_len, p, ret,
                 nclose, err, brk>>

\* an add_line that copies to the start of the buffer
add_line_mem_overwrite(m, d, out) ==
  IF d.der = NULL
  THEN Append(m, [data |-> out, nfree |-> 0])
  ELSE [m EXCEPT ![d.der].data = out]

\* the buffers after add_line appended out to the slot d
add_line_mem(m, d, out) ==
  IF d.der = NULL
  THEN Append(m, [data |-> out, nfree |-> 0])
  ELSE [m EXCEPT ![d.der].data = @ \o out]

\* an add_line that sets der_len to the length of the last line
add_line_der_last_len(m, d, out) ==
  [d EXCEPT !.der = IF d.der = NULL THEN Len(m) + 1 ELSE d.der,
            !.der_len = Len(out)]

\* the slot d after add_line appended out to it
add_line_der(m, d, out) ==
  [d EXCEPT !.der = IF d.der = NULL THEN Len(m) + 1 ELSE d.der,
            !.der_len = @ + Len(out)]

\* a content line that decodes: add_line returns 1
LineContent ==
  /\ pc = "switch" /\ state = 1
  /\ LET d == pem.obj[cur + 1]
         dec == b64_decode(Line)
     IN /\ ~check_end_marker(Scanned, lb, ll, d.der_type)
        /\ dec.ok
        /\ der_max_len' = add_line_max_len(d, der_max_len, Len(dec.out))
        /\ mem' = add_line_mem(mem, d, dec.out)
        /\ pem' = [pem EXCEPT !.obj[cur + 1] = add_line_der(mem, d, dec.out)]
  /\ trace' = Append(trace, Event("content"))
  /\ lb' = Advance(lb, le)
  /\ pc' = "loop"
  /\ UNCHANGED <<inputs, snap, pb, f, fpos, buf, le, ll, state, cur, got, p, ret,
                 nclose, calls, err, brk>>

\* a content line that does not decode: add_line returns 0
LineCorrupt ==
  /\ pc = "switch" /\ state = 1
  /\ ~check_end_marker(Scanned, lb, ll, pem.obj[cur + 1].der_type)
  /\ ~b64_decode(Line).ok
  /\ trace' = Append(trace, Event("corrupt"))
  /\ err' = "MalformedContent"
  /\ pc' = "out_free"
  /\ UNCHANGED <<inputs, snap, pb, f, fpos, buf, lb, le, ll, state, cur, got,
                 der_max_len, p, pem, mem, ret, nclose, calls, brk>>

\* a content line that decodes, and the buffer cannot grow: add_line returns 0
LineNoMem ==
  /\ pc = "switch" /\ state = 1
  /\ LET d == pem.obj[cur + 1]
         dec == b64_decode(Line)
     IN /\ ~check_end_marker(Scanned, lb, ll, d.der_type)
        /\ dec.ok
        /\ add_line_grows(d, der_max_len, Len(dec.out))
  /\ trace' = Append(trace, Event("nomem"))
  /\ err' = "AllocationFailure"
  /\ pc' = "out_free"
  /\ UNCHANGED <<inputs, snap, pb, f, fpos, buf, lb, le, ll, state, cur, got,
                 der_max_len, p, pem, mem, ret, nclose, calls, brk>>

(***************************************************************************)
(* After the loop, lines 202-227.                                          *)
(***************************************************************************)
\* a line 202 that does not look at the state
AfterLoop_ignore(st) == "out"

\* where line 202 goes: out_free when an object is still open
AfterLoop(st) == IF st # 0 THEN "out_free" ELSE "out"

After ==
  /\ pc = "after"
  /\ pc' = AfterLoop(state)
  /\ err' = IF pc' = "out_free" THEN "UnterminatedObject" ELSE err
  /\ UNCHANGED <<inputs, snap, pb, f, fpos, buf, lb, le, ll, state, cur, got,
                 der_max_len, p, pem, mem, ret, nclose, trace, calls, brk>>

\* free(p->obj[i].der) for i = 0 .. n - 1
RECURSIVE FreeObjects(_, _, _)
FreeObjects(m, t, n) ==
  IF n = 0 THEN m ELSE der_free(FreeObjects(m, t, n - 1), t, n - 1)

\* an out_free block that leaves p as it is
out_free_p_kept(ptr) == ptr

\* p after the out_free block
out_free_p(ptr) == NULL

OutFree ==
  /\ pc = "out_free"
  /\ IF p # NULL
     THEN /\ mem' = FreeObjects(mem, pem, pem.num_obj)
          /\ pem' = PemZero
          /\ p' = out_free_p(p)
     ELSE UNCHANGED <<mem, pem, p>>
  /\ pc' = "out"
  /\ UNCHANGED <<inputs, snap, pb, f, fpos, buf, lb, le, ll, state, cur, got,
                 der_max_len, ret, nclose, trace, calls, err, brk>>

\* an out block that calls fclose without looking at f
Close_unchecked(fp, n) == n + 1

\* line 224: the number of fclose calls after if (f != NULL) fclose(f)
Close(fp, n) == IF fp # NULL THEN n + 1 ELSE n

Out ==
  /\ pc = "out"
  /\ nclose' = Close(f, nclose)
  /\ ret' = p
  /\ pc' = "done"
  /\ UNCHANGED <<inputs, snap, pb, f, fpos, buf, lb, le, ll, state, cur, got,
                 der_max_len, p, pem, mem, trace, calls, err, brk>>

\* pem_free(p), called by the caller on the table pem_load returned
PemFree ==
  /\ pc = "done"
  /\ ret # NULL
  /\ mem' = FreeObjects(mem, pem, pem.num_obj)
  /\ pc' = "freed"
  /\ UNCHANGED <<inputs, snap, pb, f, fpos, buf, lb, le, ll, state, cur, got,
                 der_max_len, p, pem, ret, nclose, trace, calls, err, brk>>

Next ==
  \/ Detect
  \/ Alloc
  \/ AllocNoMem
  \/ Break
  \/ NextLine
  \/ LineBegin
  \/ LineBeginNoMem
  \/ LineSkip
  \/ \E keep \in FilterResults : LineEnd(keep)
  \/ LineContent
  \/ LineCorrupt
  \/ LineNoMem
  \/ After
  \/ OutFree
  \/ Out
  \/ PemFree

\* calls of pem_load
Spec == Init /\ [][Next]_vars

\* calls of pem_load_types
SpecTypes == InitTypes /\ [][Next]_vars

(***************************************************************************)
(* What the claims speak of: the content scanned, its lines and the        *)
(* objects it is made of, read off the text without the scanner.           *)
(***************************************************************************)
Kinds == {PEM_SIG_CERT, PEM_SIG_KEY, PEM_SIG_RSA_KEY}

BeginMarker(k) ==
  CASE k = PEM_SIG_CERT -> BEGIN_CERT
    [] k = PEM_SIG_KEY -> BEGIN_KEY
    [] k = PEM_SIG_RSA_KEY -> BEGIN_RSA

EndMarker(k) ==
  CASE k = PEM_SIG_CERT -> END_CERT
    [] k = PEM_SIG_KEY -> END_KEY
    [] k = PEM_SIG_RSA_KEY -> END_RSA

\* a scan has a source: the file or the text
Scanning == pb # "NULL"

\* the content the call scans
Content == IF pb = "buf" THEN disk ELSE fn

\* the lines of text that end with a newline, each [at, n]: its first
\* character and its length without the newline
RECURSIVE RawLines(_, _)
RawLines(text, from) ==
  IF \E i \in from..Len(text) : text[i] = "\n"
  THEN LET nl == CHOOSE i \in from..Len(text) :
                   text[i] = "\n" /\ \A h \in from..(i - 1) : text[h] # "\n"
       IN <<[at |-> from, n |-> nl - from]>> \o RawLines(text, nl + 1)
  ELSE <<>>

Blank(text, r) == \A i \in r.at..(r.at + r.n - 1) : isspace(text[i])

\* the raw line r without the white space at its ends, as [at, ll]
Trimmed(text, r) ==
  LET ink == {i \in r.at..(r.at + r.n - 1) : ~isspace(text[i])}
      first == CHOOSE i \in ink : \A h \in ink : i <= h
      last == CHOOSE i \in ink : \A h \in ink : h <= i
  IN [at |-> first, ll |-> last - first + 1]

\* the trimmed lines of text, blank lines and an unterminated last line left out
RefLines(text) ==
  LET raw == SelectSeq(RawLines(text, 1), LAMBDA r : ~Blank(text, r))
  IN [i \in 1..Len(raw) |-> Trimmed(text, raw[i])]

TextOf(text, l) == SubSeq(text, l.at, l.at + l.ll - 1)

RefTexts(text) ==
  LET ls == RefLines(text) IN [i \in 1..Len(ls) |-> TextOf(text, ls[i])]

IsBeginMarker(l) == \E k \in Kinds : l = BeginMarker(k)

KindOfBegin(l) == CHOOSE k \in Kinds : l = BeginMarker(k)

\* the lines L from the i-th on are well-formed objects, the first of them
\* already open with kind k (0: none open)
RECURSIVE ObjectsFrom(_, _, _)
ObjectsFrom(L, i, k) ==
  IF i > Len(L) THEN k = 0
  ELSE IF k = 0 THEN IsBeginMarker(L[i]) /\ ObjectsFrom(L, i + 1, KindOfBegin(L[i]))
  ELSE IF L[i] = EndMarker(k) THEN ObjectsFrom(L, i + 1, 0)
  ELSE b64_decode(L[i]).ok /\ ObjectsFrom(L, i + 1, k)

\* text is made of well-formed objects and nothing else: every line ends
\* with a newline, fits one chunk of the line buffer, and is a begin marker,
\* a decodable content line or the end marker of the open object
WellFormed(text) ==
  /\ text = <<>> \/ text[Len(text)] = "\n"
  /\ \A i \in 1..Len(RawLines(text, 1)) :
       /\ ~Blank(text, RawLines(text, 1)[i])
       /\ RawLines(text, 1)[i].n + 1 <= BUF_SIZE - 1
  /\ ObjectsFrom(RefTexts(text), 1, 0)

\* the objects of well-formed lines, each [der_type, bytes]; open is the
\* object the i-th line continues (<<>>: none)
RECURSIVE RefObjectsFrom(_, _, _)
RefObjectsFrom(L, i, open) ==
  IF i > Len(L) THEN <<>>
  ELSE IF open = <<>>
  THEN RefObjectsFrom(L, i + 1, <<[der_type |-> KindOfBegin(L[i]), bytes |-> <<>>]>>)
  ELSE IF L[i] = EndMarker(open[1].der_type)
  THEN open \o RefObjectsFrom(L, i + 1, <<>>)
  ELSE RefObjectsFrom(L, i + 1,
         <<[open[1] EXCEPT !.bytes = @ \o b64_decode(L[i]).out]>>)

RefObjects(text) == RefObjectsFrom(RefTexts(text), 1, <<>>)

\* the objects of the table, each [der_type, bytes]
TableObjects ==
  [i \in 1..pem.num_obj |->
     [der_type |-> pem.obj[i].der_type, bytes |-> DerBytes(mem, pem.obj[i])]]

\* the objects the filter accepted, as they were when it was called
Accepted ==
  LET yes == SelectSeq(calls, LAMBDA c : c.keep # PEM_FILTER_NO)
  IN [i \in 1..Len(yes) |-> [der_type |-> yes[i].der_type, bytes |-> yes[i].der]]

RECURSIVE SumLen(_)
SumLen(objs) == IF objs = <<>> THEN 0 ELSE Len(Head(objs).bytes) + SumLen(Tail(objs))

\* the line of the content that the entry e of trace is about
LineText(e) == SubSeq(Content, e.at, e.at + e.ll - 1)

LastLine == trace[Len(trace)]

Fatal == {"MalformedContent", "UnterminatedObject", "AllocationFailure"}

(***************************************************************************)
(* The claims.                                                             *)
(***************************************************************************)

\* C1: when the content scanned is made of N >= 0 well-formed objects, the
\* filter answered PEM_FILTER_YES every time and no allocation failed,
\* pem_load returns a table of N objects that have, in source order, the kind
\* and the decoded bytes of the objects of the content; der_len is the number
\* of bytes of each and tot_len is their sum.
C1_LoadsEveryObject ==
  (/\ pc = "done" /\ Scanning
   /\ err # "AllocationFailure"
   /\ \A j \in 1..Len(calls) : calls[j].keep = PEM_FILTER_YES
   /\ WellFormed(Content))
  => /\ ret # NULL
     /\ TableObjects = RefObjects(Content)
     /\ \A i \in 1..pem.num_obj : pem.obj[i].der_len = Len(TableObjects[i].bytes)
     /\ pem.tot_len = SumLen(RefObjects(Content))

\* C1 witness: a file of three well-formed objects, one of them empty and one
\* of two content lines, is loaded whole.
C1_Witness ==
  /\ pc = "done" /\ pb = "buf" /\ ret # NULL
  /\ WellFormed(Content)
  /\ \A j \in 1..Len(calls) : calls[j].keep = PEM_FILTER_YES
  /\ pem.num_obj = 3 /\ pem.tot_len = 8
  /\ \E i \in 1..3 : pem.obj[i].der_len = 0
  /\ \E i \in 1..3 : pem.obj[i].der_len = 5

\* C2: a load that ends in a fatal error returns NULL, the table is gone and
\* every buffer allocated for an object, accepted or in progress, is freed;
\* a table that is returned holds exactly the objects the filter accepted.
C2_AllOrNothing ==
  /\ (pc = "done" /\ err \in Fatal)
     => /\ ret = NULL /\ p = NULL
        /\ \A b \in 1..Len(mem) : mem[b].nfree >= 1
  /\ (pc = "done" /\ ret # NULL)
     => /\ err = "none"
        /\ TableObjects = Accepted

\* C2 witness: a line that does not decode is met in a certificate after the
\* filter accepted an object that has bytes: nothing is returned.
C2_Witness ==
  /\ pc = "done" /\ err = "MalformedContent" /\ ret = NULL
  /\ \E j \in 1..Len(calls) : calls[j].keep = PEM_FILTER_YES /\ calls[j].der # <<>>
  /\ LastLine.ev = "corrupt" /\ LastLine.kind = PEM_SIG_CERT

\* C3: a line met in state 0 starts an object if and only if it is, over its
\* whole length, one of the three begin markers, and the object has that
\* marker's kind.
C3_BeginMarkerIsExact ==
  (trace # <<>> /\ LastLine.st = 0)
  => /\ LastLine.ev \in {"begin", "nomem"} <=> IsBeginMarker(LineText(LastLine))
     /\ LastLine.ev = "begin" => LineText(LastLine) = BeginMarker(got)

\* C4: a line met in state 1 finalizes the object (the filter is called) if
\* and only if it is, over its whole length, the end marker of the kind of
\* the object.
C4_EndMarkerIsExact ==
  (trace # <<>> /\ LastLine.st = 1)
  => (LastLine.ev = "end" <=> LineText(LastLine) = EndMarker(LastLine.kind))

\* C5: for distinct kinds A and B the end marker of B is no end marker for an
\* object of kind A; met in such an object the line is handled as content,
\* does not decode, the filter is not called for it and the load fails with
\* MalformedContent.
C5_MismatchedEndMarker ==
  /\ pc = "start"
     => \A A \in Kinds : \A B \in Kinds \ {A} :
          /\ ~check_end_marker(EndMarker(B), 1, Len(EndMarker(B)), A)
          /\ ~b64_decode(EndMarker(B)).ok
  /\ (/\ trace # <<>> /\ LastLine.st = 1
      /\ \E B \in Kinds \ {LastLine.kind} : LineText(LastLine) = EndMarker(B))
     => /\ LastLine.ev = "corrupt"
        /\ err = "MalformedContent"
        /\ \A j \in 1..Len(calls) : calls[j].line # Len(trace)
        /\ pc \in {"out_free", "out", "done"}
        /\ pc = "done" => ret = NULL

\* C5 witness: a certificate with a content line is ended by the end marker of
\* a private key, and the load has failed.
C5_Witness ==
  /\ pc = "done" /\ ret = NULL /\ err = "MalformedContent"
  /\ Len(trace) >= 3
  /\ trace[Len(trace) - 1].ev = "content"
  /\ LastLine.kind = PEM_SIG_CERT
  /\ LineText(LastLine) = END_KEY

\* C6: when the filter returns PEM_FILTER_YES_AND_STOP the scan is over: that
\* call is the last one, no line after that end marker is handled, no error
\* arises, and the table returned holds the objects accepted so far followed
\* by this one, as they were when the filter saw them.
C6_StopEndsTheScan ==
  \A j \in 1..Len(calls) :
    calls[j].keep = PEM_FILTER_YES_AND_STOP
    => /\ j = Len(calls)
       /\ Len(trace) = calls[j].line
       /\ pc \in {"out", "done", "freed"}
       /\ err = "none"
       /\ p # NULL
       /\ TableObjects = Accepted
       /\ pem.num_obj = calls[j].cur + 1
       /\ pc = "done" => ret # NULL

\* C6 witness: the filter stops at the second object and the rest of the
\* content, which is never read, is a begin marker without an end marker.
C6_Witness ==
  /\ pc = "done" /\ ret # NULL
  /\ Len(calls) = 2
  /\ calls[1].keep = PEM_FILTER_YES
  /\ calls[2].keep = PEM_FILTER_YES_AND_STOP
  /\ Len(RefLines(Content)) = Len(trace) + 1
  /\ IsBeginMarker(RefTexts(Content)[Len(trace) + 1])

\* C7: when the scan loop ends at the end of the input, the load fails with
\* no result if an object is open (state 1), whatever was accepted before, and
\* succeeds if none is (state 0).
C7_EndOfInput ==
  (pc = "done" /\ brk # "none")
  => /\ state = 1 => (ret = NULL /\ err = "UnterminatedObject")
     /\ state = 0 => (ret # NULL /\ err = "none")
     /\ state \in {0, 1}

\* C7 witness: after an accepted object, a begin marker is followed by an end
\* marker that lacks its line terminator; the load returns nothing.
C7_Witness ==
  /\ pc = "done" /\ brk = "nonl" /\ state = 1 /\ ret = NULL
  /\ \E j \in 1..Len(calls) : calls[j].keep = PEM_FILTER_YES
  /\ Content[Len(Content)] # "\n"
  /\ LastLine.ev = "begin"
  /\ SubSeq(Content, LastLine.at + LastLine.ll + 1, Len(Content)) = EndMarker(got)

\* C8: after the filter rejected an object the table is as it was before the
\* begin marker of that object: num_obj, tot_len and every retained object
\* (kind, length, buffer and bytes); the object after a rejected one takes its
\* index; and between objects the table holds the accepted objects in source
\* order.
C8_RejectRestoresTable ==
  /\ (/\ calls # <<>> /\ calls[Len(calls)].keep = PEM_FILTER_NO
      /\ state = 0 /\ p # NULL)
     => View(pem, mem) = snap
  /\ \A j \in 1..(Len(calls) - 1) :
       calls[j].keep = PEM_FILTER_NO => calls[j + 1].cur = calls[j].cur
  /\ (state = 0 /\ p # NULL /\ pc # "start" /\ pc # "alloc")
     => TableObjects = Accepted

\* C8 witness: an object is accepted, the next is rejected, and a third is
\* accepted at the index of the rejected one.
C8_Witness ==
  /\ pc = "done" /\ ret # NULL
  /\ Len(calls) = 3
  /\ calls[1].keep = PEM_FILTER_YES
  /\ calls[2].keep = PEM_FILTER_NO /\ calls[2].der_len > 0
  /\ calls[3].keep = PEM_FILTER_YES /\ calls[3].cur = 1
  /\ pem.num_obj = 2

\* a kind and a mask have a bit in common
CommonBit(kind, mask) ==
  \E b \in Kinds : (kind \div b) % 2 = 1 /\ (mask \div b) % 2 = 1

\* C9: the filter of pem_load_types keeps an object if and only if its kind
\* has a bit in common with the mask and never stops the scan; on well-formed
\* content the result is, in source order, the objects whose kind is in the
\* mask, and every line of the content is scanned.
C9_TypeMaskFilter ==
  /\ \A j \in 1..Len(calls) :
       /\ calls[j].keep # PEM_FILTER_YES_AND_STOP
       /\ calls[j].keep = PEM_FILTER_YES <=> CommonBit(calls[j].der_type, type_mask)
  /\ (/\ pc = "done" /\ Scanning
      /\ err # "AllocationFailure"
      /\ WellFormed(Content))
     => /\ ret # NULL
        /\ TableObjects =
             SelectSeq(RefObjects(Content), LAMBDA o : CommonBit(o.der_type, type_mask))
        /\ Len(trace) = Len(RefLines(Content))
        /\ brk # "none"

\* C9 witness: of an RSA key, a certificate and a private key, the mask of
\* the two key kinds keeps the first and the third.
C9_Witness ==
  /\ pc = "done" /\ ret # NULL
  /\ entry = "pem_load_types"
  /\ type_mask = PEM_SIG_KEY + PEM_SIG_RSA_KEY
  /\ WellFormed(Content)
  /\ Len(RefObjects(Content)) = 3
  /\ pem.num_obj = 2
  /\ pem.obj[1].der_type = PEM_SIG_RSA_KEY
  /\ pem.obj[2].der_type = PEM_SIG_KEY

\* C10: from a file and from text in memory the reader hands the same lines
\* to the state machine: for content that can be loaded either way, when the
\* scan loop ends the lines handled are the trimmed lines of the content,
\* blank lines passed over.
C10_SameLinesFromFileAndText ==
  (pc = "after" /\ DetectKind(Content) # 0)
  => /\ Len(trace) = Len(RefLines(Content))
     /\ \A i \in 1..Len(trace) :
          trace[i].at = RefLines(Content)[i].at /\ trace[i].ll = RefLines(Content)[i].ll

\* the reader of text in memory does hand every trimmed line of the content
TextReaderHandsEveryLine == pb = "fn" => C10_SameLinesFromFileAndText

(***************************************************************************)
(* Round trip: a byte sequence is encoded in base64, split into content    *)
(* lines, wrapped in the markers of a kind and loaded.                     *)
(***************************************************************************)
\* the byte values and the widths of a content line that are tried
ByteVals == {0, 65, 255}
Widths == {4, 8}

ByteSeqs == UNION {[1..n -> ByteVals] : n \in 0..MaxBytes}

\* standard base64 of a group of one to three bytes: four characters
B64Group(g) ==
  LET b(k) == IF k <= Len(g) THEN g[k] ELSE 0
      n == b(1) * 65536 + b(2) * 256 + b(3)
  IN << B64Alphabet[n \div 262144 + 1],
        B64Alphabet[((n \div 4096) % 64) + 1],
        IF Len(g) >= 2 THEN B64Alphabet[((n \div 64) % 64) + 1] ELSE "=",
        IF Len(g) = 3 THEN B64Alphabet[(n % 64) + 1] ELSE "=" >>

RECURSIVE b64_encode(_)
b64_encode(bytes) ==
  IF bytes = <<>> THEN <<>>
  ELSE IF Len(bytes) <= 3 THEN B64Group(bytes)
  ELSE B64Group(SubSeq(bytes, 1, 3)) \o b64_encode(SubSeq(bytes, 4, Len(bytes)))

\* chars cut into lines of width characters, the last one maybe shorter
RECURSIVE ContentLines(_, _)
ContentLines(chars, width) ==
  IF chars = <<>> THEN <<>>
  ELSE LINE(SubSeq(chars, 1, Min(width, Len(chars))))
       \o ContentLines(SubSeq(chars, width + 1, Len(chars)), width)

\* the PEM text of the object a
Armor(a) ==
  LINE(BeginMarker(a.kind)) \o ContentLines(b64_encode(a.bytes), a.width)
  \o LINE(EndMarker(a.kind))

\* what may follow the object: a private key closed by the end marker of a
\* certificate
Trailer == LINE(BEGIN_KEY) \o LINE(END_CERT)

\* a call of pem_load on the encoding of an object, alone or between a line
\* that is no marker and the trailer
InitRoundTrip ==
  /\ entry = "pem_load" /\ type_mask = 0
  /\ armor \in [kind : Kinds, bytes : ByteSeqs, width : Widths]
  /\ \E junk \in BOOLEAN, viaFile \in BOOLEAN :
       Entry(IF junk THEN LINE(B64_AAAA) \o Armor(armor) \o Trailer ELSE Armor(armor),
             viaFile)

SpecRoundTrip == InitRoundTrip /\ [][Next]_vars

\* the entry of trace of the begin marker of the object that the k-th entry
\* of trace belongs to or ends
BeginOf(k) ==
  CHOOSE b \in 1..(k - 1) :
    trace[b].ev = "begin" /\ \A h \in (b + 1)..(k - 1) : trace[h].ev # "begin"

\* the decoder's output for the lines from..to of trace, one after the other
RECURSIVE DecodedLines(_, _)
DecodedLines(from, to) ==
  IF from > to THEN <<>>
  ELSE DecodedLines(from, to - 1) \o b64_decode(LineText(trace[to])).out

\* C11: whenever the filter is called the bytes of the object are the
\* decoder's output for the content lines between its begin and its end
\* marker, in line order, and der_len is their number; loading the encoding
\* of a byte sequence in content lines between the markers of a kind gives
\* an object of that kind with that byte sequence, and it is what the table
\* returned holds when the filter accepted it.
C11_RoundTrip ==
  /\ \A j \in 1..Len(calls) :
       LET e == calls[j].line
           b == BeginOf(e)
       IN /\ trace[e].ev = "end"
          /\ \A h \in (b + 1)..(e - 1) : trace[h].ev = "content"
          /\ calls[j].der = DecodedLines(b + 1, e - 1)
          /\ calls[j].der_len = Len(calls[j].der)
  /\ (armor # NoArmor /\ calls # <<>>)
     => /\ calls[1].der = armor.bytes
        /\ calls[1].der_len = Len(armor.bytes)
        /\ calls[1].der_type = armor.kind
  /\ (armor # NoArmor /\ pc = "done" /\ err # "AllocationFailure") => calls # <<>>
  /\ (/\ armor # NoArmor /\ pc = "done" /\ ret # NULL
      /\ calls # <<>> /\ calls[1].keep # PEM_FILTER_NO)
     => /\ pem.num_obj >= 1
        /\ DerBytes(mem, pem.obj[1]) = armor.bytes
        /\ pem.obj[1].der_len = Len(armor.bytes)
        /\ pem.obj[1].der_type = armor.kind

\* C11 witness: four bytes that need padding, encoded in two lines of four
\* characters, come back from a file as they were.
C11_Witness ==
  /\ pc = "done" /\ ret # NULL /\ pb = "buf"
  /\ Len(armor.bytes) = 4 /\ armor.width = 4
  /\ armor.bytes[1] = 255 /\ armor.bytes[4] = 65
  /\ pem.num_obj = 1
  /\ DerBytes(mem, pem.obj[1]) = armor.bytes

(***************************************************************************)
(* The table, the counters and the resources of a call.                    *)
(***************************************************************************)
\* the filter calls that kept the object
Kept == SelectSeq(calls, LAMBDA c : c.keep # PEM_FILTER_NO)

\* b is a prefix of a
IsPrefix(b, a) == Len(b) <= Len(a) /\ SubSeq(a, 1, Len(b)) = b

\* C13: after a successful load every object of the table was accepted by
\* the filter and was framed by a begin marker and, later, by the end marker
\* of the same kind, with only content lines between them; and no object was
\* left in progress: the last line handled is no begin marker and no content.
C13_RetainedObjectsFramed ==
  (pc = "done" /\ ret # NULL)
  => /\ Len(Kept) = pem.num_obj
     /\ \A i \in 1..Len(Kept) :
          LET e == Kept[i].line
              b == BeginOf(e)
              k == pem.obj[i].der_type
          IN /\ Kept[i].cur = i - 1
             /\ Kept[i].der_type = k
             /\ Kept[i].der = DerBytes(mem, pem.obj[i])
             /\ trace[e].ev = "end"
             /\ \A h \in (b + 1)..(e - 1) : trace[h].ev = "content"
             /\ LineText(trace[b]) = BeginMarker(k)
             /\ LineText(trace[e]) = EndMarker(k)
     /\ trace # <<>> => LastLine.ev \in {"end", "skip"}

\* the same with the markers as check_begin_marker and check_end_marker
\* take them: a line that is a prefix of the marker
FramedByRecognizedMarkers ==
  (pc = "done" /\ ret # NULL)
  => /\ Len(Kept) = pem.num_obj
     /\ \A i \in 1..Len(Kept) :
          LET e == Kept[i].line
              b == BeginOf(e)
              k == pem.obj[i].der_type
          IN /\ Kept[i].cur = i - 1
             /\ Kept[i].der_type = k
             /\ Kept[i].der = DerBytes(mem, pem.obj[i])
             /\ trace[e].ev = "end"
             /\ \A h \in (b + 1)..(e - 1) : trace[h].ev = "content"
             /\ IsPrefix(LineText(trace[b]), BeginMarker(k))
             /\ IsPrefix(LineText(trace[e]), EndMarker(k))
     /\ trace # <<>> => LastLine.ev \in {"end", "skip"}

\* num_obj just after the begin marker that is the i-th entry of trace
ObjectsAfter(i) ==
  Cardinality({h \in 1..i : trace[h].ev = "begin"})
  - Cardinality({j \in 1..Len(calls) : calls[j].keep = PEM_FILTER_NO /\ calls[j].line < i})

\* the greatest num_obj the call has had
Peak ==
  LET N == {ObjectsAfter(i) : i \in {h \in 1..Len(trace) : trace[h].ev = "begin"}}
  IN IF N = {} THEN 0 ELSE CHOOSE m \in N : \A x \in N : x <= m

\* C15: as long as the table exists num_obj <= max_obj, the table has
\* max_obj slots, and max_obj is the least multiple of OBJ_INCREMENT that
\* holds the greatest num_obj there has been (0 at first, grown by
\* OBJ_INCREMENT only at a begin marker that finds the table full); every
\* occupied slot is initialised, the object in progress is the last occupied
\* slot, and just after its begin marker it has its kind, length 0 and no
\* buffer.
C15_TableCapacity ==
  p # NULL
  => /\ pem.num_obj <= pem.max_obj
     /\ Len(pem.obj) = pem.max_obj
     /\ pem.max_obj % OBJ_INCREMENT = 0
     /\ pem.max_obj - OBJ_INCREMENT < Peak /\ Peak <= pem.max_obj
     /\ pem.num_obj = Cardinality({h \in 1..Len(trace) : trace[h].ev = "begin"})
                       - Cardinality({j \in 1..Len(calls) : calls[j].keep = PEM_FILTER_NO})
     /\ \A i \in 1..pem.num_obj :
          /\ pem.obj[i].der_type \in Kinds
          /\ pem.obj[i].der_len >= 0
          /\ pem.obj[i].der = NULL <=> pem.obj[i].der_len = 0
     /\ (state = 1 /\ pc \in {"loop", "switch"})
        => cur + 1 = pem.num_obj /\ cur < pem.max_obj
     /\ (trace # <<>> /\ LastLine.ev = "begin")
        => pem.obj[cur + 1] = [der_type |-> got, der_len |-> 0, der |-> NULL]

\* C15 witness: a table of five objects has grown twice, after a rejection.
C15_Witness ==
  /\ p # NULL /\ pem.max_obj = 2 * OBJ_INCREMENT /\ pem.num_obj = OBJ_INCREMENT + 1
  /\ \E j \in 1..Len(calls) : calls[j].keep = PEM_FILTER_NO

\* the sum of der_len over the first n slots of the table
RECURSIVE SumDerLen(_)
SumDerLen(n) == IF n = 0 THEN 0 ELSE SumDerLen(n - 1) + pem.obj[n].der_len

\* C16: as long as the table exists tot_len is the sum of the lengths of the
\* objects the filter accepted so far, which are the first slots of the
\* table; content lines, begin markers and rejections leave it as it is.
C16_TotLen ==
  p # NULL
  => /\ pem.tot_len = SumLen(Accepted)
     /\ pem.tot_len = SumDerLen(Len(Kept))
     /\ Len(Kept) <= pem.num_obj

\* C16 witness: an object with bytes is rejected, the next is accepted, and a
\* third is in progress with bytes of its own.
C16_Witness ==
  /\ p # NULL /\ pc = "loop" /\ state = 1
  /\ Len(calls) = 2
  /\ calls[1].keep = PEM_FILTER_NO /\ calls[1].der_len > 0
  /\ calls[2].keep = PEM_FILTER_YES /\ calls[2].der_len > 0
  /\ pem.obj[cur + 1].der_len > 0
  /\ pem.tot_len = calls[2].der_len

\* C17: fclose is called only when the call returns, once if the file was
\* opened (f is not NULL) and never if the source is text or the file could
\* not be opened, whatever the way out.
C17_FileClosedOnce ==
  /\ pc \notin {"done", "freed"} => nclose = 0
  /\ pc \in {"done", "freed"} => nclose = IF f # NULL THEN 1 ELSE 0
  /\ (pb = "fn" \/ err = "SourceUnavailable") => f = NULL
  /\ pc = "done" => (nclose = 1 <=> (fopen_ok(fn) /\ DetectKind(fn) = 0))

\* C17 witness: the table cannot grow for the second object of a file; the
\* file is closed once.
C17_Witness ==
  /\ pc = "done" /\ f # NULL /\ nclose = 1
  /\ err = "AllocationFailure" /\ ret = NULL
  /\ Len(calls) >= 1
  /\ LastLine.ev = "nomem" /\ LastLine.st = 0

\* C19: at every call of the filter the kind passed is the der_type of the
\* object finalized, which is the kind check_begin_marker gave the line that
\* opened it: the line is that kind's begin marker or a prefix of it.
C19_FilterGetsObjectKind ==
  \A j \in 1..Len(calls) :
    LET e == calls[j].line
        b == BeginOf(e)
    IN /\ calls[j].type = calls[j].der_type
       /\ calls[j].type \in Kinds
       /\ trace[e].kind = calls[j].type
       /\ IsPrefix(LineText(trace[b]), BeginMarker(calls[j].type))
       /\ IsBeginMarker(LineText(trace[b]))
          => LineText(trace[b]) = BeginMarker(calls[j].type)

\* C19 witness: text in memory that the detection took for an RSA key;
\* the filter rejects an RSA key and then gets a certificate and a private key.
C19_Witness ==
  /\ pb = "fn" /\ Len(calls) = 3
  /\ DetectKind(fn) = PEM_SIG_RSA_KEY
  /\ calls[1].type = PEM_SIG_RSA_KEY /\ calls[1].keep = PEM_FILTER_NO
  /\ calls[2].type = PEM_SIG_CERT
  /\ calls[3].type = PEM_SIG_KEY

\* C20: no buffer is freed twice; as long as the table is in use the buffers
\* of its occupied slots are not freed and no two slots share one, so that a
\* buffer freed on rejection is out of the reach of the error path and of
\* pem_free; a slot taken at a begin marker has no buffer; and after the
\* error path, and after pem_free, every buffer was freed exactly once.
C20_BuffersFreedOnce ==
  /\ \A b \in 1..Len(mem) : mem[b].nfree <= 1
  /\ (p # NULL /\ pc # "freed")
     => /\ \A i \in 1..pem.num_obj :
             pem.obj[i].der # NULL
             => /\ pem.obj[i].der \in 1..Len(mem)
                /\ mem[pem.obj[i].der].nfree = 0
                /\ \A k \in 1..pem.num_obj : k # i => pem.obj[k].der # pem.obj[i].der
        /\ \A b \in 1..Len(mem) :
             mem[b].nfree = 0 => \E i \in 1..pem.num_obj : pem.obj[i].der = b
  /\ (trace # <<>> /\ LastLine.ev = "begin" /\ p # NULL) => pem.obj[cur + 1].der = NULL
  /\ (pc = "done" /\ ret = NULL) => \A b \in 1..Len(mem) : mem[b].nfree = 1
  /\ pc = "freed" => \A b \in 1..Len(mem) : mem[b].nfree = 1

\* C20 witness: an object with bytes was rejected, a later one took its slot
\* and was accepted, and the caller has freed the table.
C20_Witness ==
  /\ pc = "freed"
  /\ Len(calls) >= 2 /\ Len(mem) >= 2
  /\ \E j \in 1..(Len(calls) - 1) :
       /\ calls[j].keep = PEM_FILTER_NO /\ calls[j].der_len > 0
       /\ calls[j + 1].keep = PEM_FILTER_YES /\ calls[j + 1].der_len > 0
       /\ calls[j + 1].cur = calls[j].cur

(***************************************************************************)
(* Termination.                                                            *)
(***************************************************************************)
\* a step of pem_load, which runs until it returns
LoadStep == pc \notin {"done", "freed"} /\ Next

\* pem_load is not stuck: at the head of the loop the reader ends the loop
\* or finds a line (the guard of Break or the guard of NextLine holds), in
\* the switch one of the handlers can take the line, and everywhere else the
\* step depends on the position alone
CanStep ==
  CASE pc = "loop" -> ReadLine.brk \in {"eof", "nul", "nonl", "none"}
    [] pc = "switch" ->
         ENABLED (\/ LineBegin \/ LineSkip \/ LineContent \/ LineCorrupt
                  \/ \E keep \in FilterResults : LineEnd(keep))
    [] OTHER -> pc \in {"start", "alloc", "after", "out_free", "out"}

\* reading a line and handling it move the scan forward: the file offset
\* grows by the chunk read, the text pointer ends after the line handled
ScanAdvances ==
  /\ (pc = "loop" /\ pc' = "switch")
     => IF pb = "buf" THEN fpos' > fpos /\ fpos' <= Len(disk)
        ELSE lb' >= lb /\ le' > lb' /\ le' <= Len(fn) + 1
  /\ (pc = "switch" /\ pc' = "loop")
     => IF pb = "buf" THEN fpos' = fpos ELSE lb' > lb /\ lb' <= Len(fn) + 1

\* the three ways a call ends
EndsInSuccess == ret # NULL /\ err = "none" /\ brk # "none"
EndsInStop ==
  /\ ret # NULL /\ err = "none" /\ brk = "none"
  /\ calls # <<>> /\ calls[Len(calls)].keep = PEM_FILTER_YES_AND_STOP
EndsInError == ret = NULL /\ err # "none"

\* the position in pem_load, counted down to the return
Phase ==
  CASE pc = "start" -> 6
    [] pc = "alloc" -> 5
    [] pc \in {"loop", "switch"} -> 4
    [] pc = "after" -> 3
    [] pc = "out_free" -> 2
    [] pc = "out" -> 1
    [] OTHER -> 0

\* what is left to scan, counted in half passes of the loop: the characters
\* of the text from lb on, or the characters of the file not yet read
LeftToScan ==
  IF pc \notin {"loop", "switch"} THEN 0
  ELSE IF pb = "buf" THEN 2 * (Len(disk) - fpos) + (IF pc = "switch" THEN 1 ELSE 0)
  ELSE 2 * (Len(fn) + 1 - lb) + (IF pc = "loop" THEN 1 ELSE 0)

\* a number that no call can count down from forever
Variant == Phase * (2 * (Len(fn) + Len(disk)) + 4) + LeftToScan

\* C18: every call of pem_load returns, in exactly one of success, filter
\* stop and fatal error: until it returns the call is never stuck,
\* every step counts the variant down, which is never negative, and every
\* pass of the scan loop that does not leave the loop moves the scan
\* forward in the text or in the file.
C18_Terminates ==
  /\ [][ScanAdvances]_vars
  /\ [][LoadStep => Variant' < Variant]_vars
  /\ [](Variant >= 0 /\ LeftToScan >= 0)
  /\ [](pc \notin {"done", "freed"} => CanStep)
  /\ [](pc = "done" =>
         /\ EndsInSuccess \/ EndsInStop \/ EndsInError
         /\ ~(EndsInSuccess /\ EndsInStop)
         /\ ~(EndsInSuccess /\ EndsInError)
         /\ ~(EndsInStop /\ EndsInError))

\* C18 witness: a call from text returns after ten lines.
C18_Witness ==
  /\ pc = "done" /\ pb = "fn" /\ Len(trace) >= 10 /\ EndsInSuccess

(***************************************************************************)
(* Long lines and big objects.                                             *)
(***************************************************************************)
\* a line of BUF_SIZE characters, one more than an fgets chunk holds with
\* its newline; as base64 it decodes to DEC_SIZE bytes
LONG_LINE == [i \in 1..BUF_SIZE |-> "A"]

RECURSIVE Repeat(_, _)
Repeat(piece, n) == IF n = 0 THEN <<>> ELSE piece \o Repeat(piece, n - 1)

\* ten long lines: with one more line they decode to more than DER_INCREMENT bytes
BLOCK == Repeat(LINE(LONG_LINE), 10)

ItemsBig == << LINE(BEGIN_CERT), LINE(END_CERT), LINE(LONG_LINE), BLOCK >>

RECURSIVE FlattenBig(_)
FlattenBig(ids) ==
  IF Len(ids) = 0 THEN <<>> ELSE ItemsBig[Head(ids)] \o FlattenBig(Tail(ids))

InputsBig ==
  {FlattenBig(ids) : ids \in UNION {[1..n -> 1..Len(ItemsBig)] : n \in 0..MaxBigItems}}

\* a call of pem_load on content with long lines
InitBig ==
  /\ entry = "pem_load" /\ type_mask = 0 /\ armor = NoArmor
  /\ \E text \in InputsBig, viaFile \in BOOLEAN : Entry(text, viaFile)

SpecBig == InitBig /\ [][Next]_vars

\* the places in text of the lines too long for one fgets chunk
LongLinesAt(text) ==
  LET raw == RawLines(text, 1)
  IN {raw[i].at : i \in {h \in 1..Len(raw) : raw[h].n + 1 > BUF_SIZE - 1}}

\* the file reader has read into a line that is too long
LongLineMet == pb = "buf" /\ \E a \in LongLinesAt(disk) : fpos >= a

\* C12: a load from a file that meets a line longer than one fgets chunk
\* holds fails, in whichever state the line is met: no table is returned.
C12_LongLineRejected ==
  (pc = "done" /\ LongLineMet) => ret = NULL

\* a long line met inside an object does make the load fail
LongLineInObjectFails ==
  (pc = "done" /\ LongLineMet /\ state = 1 /\ brk # "none") => ret = NULL

\* C14: while an object is in progress its length is at most the capacity of
\* its buffer, the capacity is the least multiple of DER_INCREMENT that
\* holds the length (0 for a new object, grown by DER_INCREMENT only when a
\* line needs it, never shrunk), and for every size the decoder can report
\* the capacity add_line leaves is enough for the length and the new bytes.
C14_BufferCapacity ==
  (state = 1 /\ p # NULL)
  => LET d == pem.obj[cur + 1]
     IN /\ d.der_len <= der_max_len
        /\ der_max_len % DER_INCREMENT = 0
        /\ der_max_len - DER_INCREMENT < d.der_len
        /\ d.der_len = 0 => der_max_len = 0
        /\ d.der_len = Len(DerBytes(mem, d))
        /\ \A olen \in 0..DEC_SIZE :
             /\ add_line_max_len(d, der_max_len, olen) >= d.der_len + olen
             /\ add_line_max_len(d, der_max_len, olen) \in
                  {der_max_len, der_max_len + DER_INCREMENT}
             /\ add_line_max_len(d, der_max_len, olen) = der_max_len
                  <=> d.der_len + olen <= der_max_len

\* C14 witness: an object in progress has grown its buffer twice.
C14_Witness ==
  /\ state = 1 /\ p # NULL /\ pc = "loop"
  /\ der_max_len = 2 * DER_INCREMENT
  /\ pem.obj[cur + 1].der_len > DER_INCREMENT

=============================================================================
